---- MODULE Spec2Model ----
(***************************************************************************)
(* PatternValidator (src/src/semantico/pattern_validator.py): the six      *)
(* ontology design pattern checkers, the genset matcher, validate_all and  *)
(* get_summary, as a state machine over one validator instance.            *)
(*                                                                         *)
(* Python dicts are records; a key the dict lacks is a field the record    *)
(* lacks (DOMAIN), so d.get(k) and d[k] differ as they do in Python: the   *)
(* first yields a default, the second raises KeyError.  Lists are          *)
(* sequences.  The lists 'parents', 'specifics' and 'modifiers' are only   *)
(* ever tested with "in", so they are sets.  f-strings are built with \o.  *)
(***************************************************************************)
EXTENDS Integers, Sequences, FiniteSets, TLC

VARIABLES
    classes,              \* self.classes
    gensets,              \* self.gensets
    relations,            \* self.relations
    complete_patterns,    \* self.complete_patterns
    incomplete_patterns,  \* self.incomplete_patterns
    outcome,              \* how the latest validate_all call ended: "none", "returned", "raised"
    result,               \* <<r>>: r is what the latest validate_all returned; <<>>: nothing returned
    prev_result,          \* result of the validate_all call before the latest one
    summary,              \* <<s>>: s is what get_summary returned as the latest call; <<>> otherwise
    found                 \* <<q>>: the latest _find_genset_for_classes call and what it returned

vars == <<classes, gensets, relations, complete_patterns, incomplete_patterns,
          outcome, result, prev_result, summary, found>>

(***************************************************************************)
(* Bounds of the checked inputs.                                           *)
(***************************************************************************)
MaxSpecializers == 2
MaxGensets == 2
MaxBody == 2
MaxRelations == 2

(***************************************************************************)
(* Python helpers.                                                         *)
(***************************************************************************)
\* d.get(key, default)
Get(d, key, default) == IF key \in DOMAIN d THEN d[key] ELSE default

\* [f(x) for x in seq]: the names of a list of classes
NamesOf(seq) == [i \in 1..Len(seq) |-> seq[i].name]

\* sep.join(strs)
RECURSIVE Join(_, _)
Join(sep, strs) ==
    IF Len(strs) = 0 THEN ""
    ELSE IF Len(strs) = 1 THEN strs[1]
    ELSE strs[1] \o sep \o Join(sep, Tail(strs))

\* str(list of str), as an f-string interpolates a list: ['A', 'B']
ListRepr(strs) == "[" \o Join(", ", [i \in 1..Len(strs) |-> "'" \o strs[i] \o "'"]) \o "]"

\* the elements of a sequence
Range(seq) == {seq[i] : i \in 1..Len(seq)}

\* sub in pattern_type, for the words the formatter tests and the six types
Contains(pattern_type, sub) ==
    \/ pattern_type = sub \o " Pattern"
    \/ sub = "Role" /\ pattern_type = "RoleMixin Pattern"

(***************************************************************************)
(* _find_genset_for_classes: the first genset, in list order, with the     *)
(* general class, all the specific classes, all the required modifiers and *)
(* none of the forbidden ones; <<g>> for a genset g, <<>> for None.        *)
(***************************************************************************)
\* the same, but the genset's specifics must be exactly the specific classes
GensetQualifiesAs(genset, general_class, specific_classes, required_modifiers, forbidden_modifiers) ==
    /\ Get(genset, "general", "") = general_class
    /\ Range(specific_classes) = Get(genset, "specifics", {})
    /\ \A i \in 1..Len(required_modifiers) : required_modifiers[i] \in Get(genset, "modifiers", {})
    /\ ~ \E i \in 1..Len(forbidden_modifiers) : forbidden_modifiers[i] \in Get(genset, "modifiers", {})

GensetQualifies(genset, general_class, specific_classes, required_modifiers, forbidden_modifiers) ==
    /\ Get(genset, "general", "") = general_class
    /\ \A i \in 1..Len(specific_classes) : specific_classes[i] \in Get(genset, "specifics", {})
    /\ \A i \in 1..Len(required_modifiers) : required_modifiers[i] \in Get(genset, "modifiers", {})
    /\ ~ \E i \in 1..Len(forbidden_modifiers) : forbidden_modifiers[i] \in Get(genset, "modifiers", {})

RECURSIVE FindGensetFrom(_, _, _, _, _)
FindGensetFrom(i, general_class, specific_classes, required_modifiers, forbidden_modifiers) ==
    IF i > Len(gensets) THEN <<>>
    ELSE IF GensetQualifies(gensets[i], general_class, specific_classes,
                            required_modifiers, forbidden_modifiers)
         THEN <<gensets[i]>>
         ELSE FindGensetFrom(i + 1, general_class, specific_classes,
                             required_modifiers, forbidden_modifiers)

_find_genset_for_classes(general_class, specific_classes, required_modifiers, forbidden_modifiers) ==
    FindGensetFrom(1, general_class, specific_classes, required_modifiers, forbidden_modifiers)

(***************************************************************************)
(* A run of validate_all in progress: the two accumulators and whether a   *)
(* KeyError has been raised (the checkers that follow do not run).         *)
(***************************************************************************)
\* the accumulators as the previous run left them
ClearedAs == [complete |-> complete_patterns, incomplete |-> incomplete_patterns, raised |-> FALSE]

Cleared == [complete |-> <<>>, incomplete |-> <<>>, raised |-> FALSE]

AppendComplete(st, v) == [st EXCEPT !.complete = Append(@, v)]
AppendIncomplete(st, v) == [st EXCEPT !.incomplete = Append(@, v)]
Raise(st) == [st EXCEPT !.raised = TRUE]

\* [c for c in self.classes if c['stereotype'] == stereotype]
ClassesOf(stereotype) == SelectSeq(classes, LAMBDA c : c.stereotype = stereotype)

\* [c for c in self.classes if c['stereotype'] == stereotype and name in c.get('parents', [])]
Specializers(stereotype, name) ==
    SelectSeq(classes, LAMBDA c : c.stereotype = stereotype /\ name \in Get(c, "parents", {}))

\* the same, but the specifics are listed last to first
GensetSuggestionAs(modifiers, genset_name, general, specifics) ==
    "Adicione: " \o modifiers \o " genset " \o genset_name \o " { general " \o general
        \o " specifics "
        \o Join(", ", [i \in 1..Len(specifics) |-> specifics[Len(specifics) + 1 - i]]) \o " }"

\* the suggested declaration of the Subkind, Role, Phase and RoleMixin checkers
GensetSuggestion(modifiers, genset_name, general, specifics) ==
    "Adicione: " \o modifiers \o " genset " \o genset_name \o " { general " \o general
        \o " specifics " \o Join(", ", specifics) \o " }"

(***************************************************************************)
(* 1. Subkind Pattern: one kind of the loop of _validate_subkind_pattern.  *)
(***************************************************************************)
SubkindRequiredAs == <<"disjoint">>
SubkindRequired == <<"disjoint", "complete">>

\* the fewest subkinds of a kind for the pattern to apply
SubkindMinAs == 2 - 1
SubkindMin == 2

SubkindStep(st, kind) ==
    LET kind_name == kind.name
        subkinds == Specializers("subkind", kind_name)
        genset_found == _find_genset_for_classes(kind_name, NamesOf(subkinds),
                                                 SubkindRequired, <<>>)
    IN  IF Len(subkinds) < SubkindMin THEN st
        ELSE IF "line" \notin DOMAIN kind THEN Raise(st)
        ELSE IF genset_found # <<>>
             THEN AppendComplete(st,
                    [type |-> "Subkind Pattern", kind |-> kind_name,
                     subkinds |-> NamesOf(subkinds), genset |-> genset_found[1].name,
                     line |-> kind.line])
             ELSE AppendIncomplete(st,
                    [type |-> "Subkind Pattern", kind |-> kind_name,
                     subkinds |-> NamesOf(subkinds),
                     error |-> "Falta genset disjoint complete",
                     suggestion |-> GensetSuggestion("disjoint complete", kind_name \o "_Genset",
                                                     kind_name, NamesOf(subkinds)),
                     line |-> kind.line])

\* for every kind, in class-list order, until a KeyError is raised
_validate_subkind_pattern(st) ==
    LET kinds == ClassesOf("kind")
        after[i \in 0..Len(kinds)] ==
            IF i = 0 THEN st
            ELSE IF after[i - 1].raised THEN after[i - 1]
            ELSE SubkindStep(after[i - 1], kinds[i])
    IN  after[Len(kinds)]

(***************************************************************************)
(* 2. Role Pattern: complete required, disjoint forbidden.                 *)
(***************************************************************************)
RoleRequired == <<"complete">>

RoleForbiddenAs == <<>>
RoleForbidden == <<"disjoint">>

\* the fewest roles of a kind for the pattern to apply
RoleMin == 2

RoleStep(st, kind) ==
    LET kind_name == kind.name
        roles == Specializers("role", kind_name)
        genset_found == _find_genset_for_classes(kind_name, NamesOf(roles),
                                                 RoleRequired, RoleForbidden)
    IN  IF Len(roles) < RoleMin THEN st
        ELSE IF "line" \notin DOMAIN kind THEN Raise(st)
        ELSE IF genset_found # <<>>
             THEN AppendComplete(st,
                    [type |-> "Role Pattern", kind |-> kind_name,
                     roles |-> NamesOf(roles), genset |-> genset_found[1].name,
                     line |-> kind.line])
             ELSE AppendIncomplete(st,
                    [type |-> "Role Pattern", kind |-> kind_name,
                     roles |-> NamesOf(roles),
                     error |-> "Falta genset complete (sem disjoint)",
                     suggestion |-> GensetSuggestion("complete", kind_name \o "_Role_Genset",
                                                     kind_name, NamesOf(roles)),
                     line |-> kind.line])

\* for every kind, in class-list order, until a KeyError is raised
_validate_role_pattern(st) ==
    LET kinds == ClassesOf("kind")
        after[i \in 0..Len(kinds)] ==
            IF i = 0 THEN st
            ELSE IF after[i - 1].raised THEN after[i - 1]
            ELSE RoleStep(after[i - 1], kinds[i])
    IN  after[Len(kinds)]

(***************************************************************************)
(* 3. Phase Pattern: disjoint required, complete optional.                 *)
(***************************************************************************)
PhaseRequiredAs == <<"disjoint", "complete">>
PhaseRequired == <<"disjoint">>

\* the fewest phases of a kind for the pattern to apply
PhaseMin == 2

PhaseStep(st, kind) ==
    LET kind_name == kind.name
        phases == Specializers("phase", kind_name)
        genset_found == _find_genset_for_classes(kind_name, NamesOf(phases),
                                                 PhaseRequired, <<>>)
    IN  IF Len(phases) < PhaseMin THEN st
        ELSE IF "line" \notin DOMAIN kind THEN Raise(st)
        ELSE IF genset_found # <<>>
             THEN AppendComplete(st,
                    [type |-> "Phase Pattern", kind |-> kind_name,
                     phases |-> NamesOf(phases), genset |-> genset_found[1].name,
                     line |-> kind.line])
             ELSE AppendIncomplete(st,
                    [type |-> "Phase Pattern", kind |-> kind_name,
                     phases |-> NamesOf(phases),
                     error |-> "Falta genset disjoint (obrigatório para phases)",
                     suggestion |-> GensetSuggestion("disjoint complete",
                                                     kind_name \o "_Phase_Genset",
                                                     kind_name, NamesOf(phases)),
                     line |-> kind.line])

\* for every kind, in class-list order, until a KeyError is raised
_validate_phase_pattern(st) ==
    LET kinds == ClassesOf("kind")
        after[i \in 0..Len(kinds)] ==
            IF i = 0 THEN st
            ELSE IF after[i - 1].raised THEN after[i - 1]
            ELSE PhaseStep(after[i - 1], kinds[i])
    IN  after[Len(kinds)]

(***************************************************************************)
(* 4. Relator Pattern.  For every top-level relation that is internal and  *)
(* a mediation, the loop appends every mediation member of the relator's   *)
(* body once more.                                                         *)
(***************************************************************************)
\* mediations = [r for r in self.relations if r.get('internal') and r.get('stereotype') == 'mediation']
InternalMediations ==
    SelectSeq(relations,
              LAMBDA r : Get(r, "internal", FALSE) /\ Get(r, "stereotype", "") = "mediation")

\* the mediation members of a body; a missing or empty body is falsy
BodyMediations(relator) ==
    SelectSeq(Get(relator, "body", <<>>), LAMBDA member : Get(member, "stereotype", "") = "mediation")

\* relator_mediations after the loop over mediations
RelatorMediations(relator) ==
    LET mediations == InternalMediations
        acc[i \in 0..Len(mediations)] ==
            IF i = 0 THEN <<>> ELSE acc[i - 1] \o BodyMediations(relator)
    IN  acc[Len(mediations)]

RelatorStep(st, relator) ==
    LET relator_name == relator.name
        relator_mediations == RelatorMediations(relator)
    IN  IF "line" \notin DOMAIN relator THEN Raise(st)
        ELSE IF Len(relator_mediations) >= 2
             THEN AppendComplete(st,
                    [type |-> "Relator Pattern", relator |-> relator_name,
                     mediations |-> Len(relator_mediations), line |-> relator.line])
             ELSE AppendIncomplete(st,
                    [type |-> "Relator Pattern", relator |-> relator_name,
                     mediations |-> Len(relator_mediations),
                     error |-> "Relator deve ter pelo menos 2 mediações (tem "
                                  \o ToString(Len(relator_mediations)) \o ")",
                     suggestion |-> "Adicione relações @mediation dentro do relator "
                                  \o relator_name,
                     line |-> relator.line])

\* for every relator, in class-list order, until a KeyError is raised
_validate_relator_pattern(st) ==
    LET relators == ClassesOf("relator")
        after[i \in 0..Len(relators)] ==
            IF i = 0 THEN st
            ELSE IF after[i - 1].raised THEN after[i - 1]
            ELSE RelatorStep(after[i - 1], relators[i])
    IN  after[Len(relators)]

(***************************************************************************)
(* 5. Mode Pattern.                                                        *)
(***************************************************************************)
\* the same, looking at the first member only
HasMemberAs(container, stereotype) ==
    /\ Len(Get(container, "body", <<>>)) >= 1
    /\ Get(Get(container, "body", <<>>)[1], "stereotype", "") = stereotype

HasMember(container, stereotype) ==
    \E i \in 1..Len(Get(container, "body", <<>>)) :
        Get(Get(container, "body", <<>>)[i], "stereotype", "") = stereotype

ModeStep(st, mode) ==
    LET mode_name == mode.name
        has_characterization == HasMember(mode, "characterization")
        has_external_dependence == HasMember(mode, "externalDependence")
        missing == (IF has_characterization THEN <<>> ELSE <<"@characterization">>)
                   \o (IF has_external_dependence THEN <<>> ELSE <<"@externalDependence">>)
    IN  IF "line" \notin DOMAIN mode THEN Raise(st)
        ELSE IF has_characterization /\ has_external_dependence
             THEN AppendComplete(st,
                    [type |-> "Mode Pattern", mode |-> mode_name, line |-> mode.line])
             ELSE AppendIncomplete(st,
                    [type |-> "Mode Pattern", mode |-> mode_name,
                     error |-> "Faltam relações: " \o Join(", ", missing),
                     suggestion |-> "Adicione " \o Join(" e ", missing)
                                       \o " dentro do mode " \o mode_name,
                     line |-> mode.line])

\* for every mode, in class-list order, until a KeyError is raised
_validate_mode_pattern(st) ==
    LET modes == ClassesOf("mode")
        after[i \in 0..Len(modes)] ==
            IF i = 0 THEN st
            ELSE IF after[i - 1].raised THEN after[i - 1]
            ELSE ModeStep(after[i - 1], modes[i])
    IN  after[Len(modes)]

(***************************************************************************)
(* 6. RoleMixin Pattern: fewer than two roles is Incomplete at once, with  *)
(* no genset lookup.                                                       *)
(***************************************************************************)
\* the fewest roles a roleMixin needs before a genset is looked for
MinRolesAs == 2 - 1
MinRoles == 2

RoleMixinStep(st, rolemixin) ==
    LET rolemixin_name == rolemixin.name
        roles == Specializers("role", rolemixin_name)
        genset_found == _find_genset_for_classes(rolemixin_name, NamesOf(roles),
                                                 <<"disjoint", "complete">>, <<>>)
    IN  IF "line" \notin DOMAIN rolemixin THEN Raise(st)
        ELSE IF Len(roles) < MinRoles
             THEN AppendIncomplete(st,
                    [type |-> "RoleMixin Pattern", rolemixin |-> rolemixin_name,
                     error |-> "Precisa de pelo menos 2 roles especializando " \o rolemixin_name,
                     suggestion |-> "Adicione roles que especializam " \o rolemixin_name,
                     line |-> rolemixin.line])
        ELSE IF genset_found # <<>>
             THEN AppendComplete(st,
                    [type |-> "RoleMixin Pattern", rolemixin |-> rolemixin_name,
                     roles |-> NamesOf(roles), genset |-> genset_found[1].name,
                     line |-> rolemixin.line])
             ELSE AppendIncomplete(st,
                    [type |-> "RoleMixin Pattern", rolemixin |-> rolemixin_name,
                     roles |-> NamesOf(roles),
                     error |-> "Falta genset disjoint complete",
                     suggestion |-> GensetSuggestion("disjoint complete",
                                                     rolemixin_name \o "_Genset",
                                                     rolemixin_name, NamesOf(roles)),
                     line |-> rolemixin.line])

\* for every roleMixin, in class-list order, until a KeyError is raised
_validate_rolemixin_pattern(st) ==
    LET rolemixins == ClassesOf("roleMixin")
        after[i \in 0..Len(rolemixins)] ==
            IF i = 0 THEN st
            ELSE IF after[i - 1].raised THEN after[i - 1]
            ELSE RoleMixinStep(after[i - 1], rolemixins[i])
    IN  after[Len(rolemixins)]

(***************************************************************************)
(* Formatting of the verdicts for the caller.                              *)
(***************************************************************************)
_format_complete_pattern(pattern_data) ==
    LET pattern_type == pattern_data.type
        details ==
            IF Contains(pattern_type, "Subkind")
            THEN "Kind '" \o pattern_data.kind \o "' com subkinds "
                    \o ListRepr(pattern_data.subkinds)
                    \o " e genset '" \o pattern_data.genset \o "'"
            ELSE IF Contains(pattern_type, "Role") /\ ~Contains(pattern_type, "RoleMixin")
            THEN "Kind '" \o pattern_data.kind \o "' com roles "
                    \o ListRepr(pattern_data.roles)
                    \o " e genset '" \o pattern_data.genset \o "'"
            ELSE IF Contains(pattern_type, "Phase")
            THEN "Kind '" \o pattern_data.kind \o "' com phases "
                    \o ListRepr(pattern_data.phases)
                    \o " e genset '" \o pattern_data.genset \o "'"
            ELSE IF Contains(pattern_type, "Relator")
            THEN "Relator '" \o pattern_data.relator \o "' com "
                    \o ToString(pattern_data.mediations) \o " mediações"
            ELSE IF Contains(pattern_type, "Mode")
            THEN "Mode '" \o pattern_data.mode \o "' com @characterization e @externalDependence"
            ELSE IF Contains(pattern_type, "RoleMixin")
            THEN "RoleMixin '" \o pattern_data.rolemixin \o "' com roles "
                    \o ListRepr(pattern_data.roles)
                    \o " e genset '" \o pattern_data.genset \o "'"
            ELSE "str(pattern_data)"  \* no checker emits a seventh type
    IN  [pattern |-> pattern_type, details |-> details, line |-> pattern_data.line]

_format_incomplete_pattern(pattern_data) ==
    [pattern |-> pattern_data.type, error |-> pattern_data.error,
     suggestion |-> pattern_data.suggestion, line |-> pattern_data.line]

(***************************************************************************)
(* validate_all: clear both accumulators, run the six checkers in order,   *)
(* return the formatted verdicts.  A KeyError leaves the accumulators as   *)
(* they were when it was raised and returns nothing.                       *)
(***************************************************************************)
RunCheckers ==
    _validate_rolemixin_pattern(
        _validate_mode_pattern(
            _validate_relator_pattern(
                _validate_phase_pattern(
                    _validate_role_pattern(
                        _validate_subkind_pattern(Cleared))))))

Formatted(st) ==
    [complete   |-> [i \in 1..Len(st.complete) |-> _format_complete_pattern(st.complete[i])],
     incomplete |-> [i \in 1..Len(st.incomplete) |-> _format_incomplete_pattern(st.incomplete[i])]]

validate_all ==
    LET st == RunCheckers
    IN  /\ complete_patterns' = st.complete
        /\ incomplete_patterns' = st.incomplete
        /\ outcome' = IF st.raised THEN "raised" ELSE "returned"
        /\ result' = IF st.raised THEN <<>> ELSE <<Formatted(st)>>
        /\ prev_result' = result
        /\ summary' = <<>>
        /\ UNCHANGED <<classes, gensets, relations, found>>

(***************************************************************************)
(* get_summary                                                             *)
(***************************************************************************)
\* the same, but a type seen again is set to 1
CountByTypeAs(patterns) ==
    LET counts[i \in 0..Len(patterns)] ==
            IF i = 0 THEN << >>
            ELSE LET ptype == patterns[i].type
                     before == counts[i - 1]
                 IN  IF ptype \in DOMAIN before
                     THEN [before EXCEPT ![ptype] = 1]
                     ELSE before @@ (ptype :> 1)
    IN  counts[Len(patterns)]

_count_by_type(patterns) ==
    LET counts[i \in 0..Len(patterns)] ==
            IF i = 0 THEN << >>
            ELSE LET ptype == patterns[i].type
                     before == counts[i - 1]
                 IN  IF ptype \in DOMAIN before
                     THEN [before EXCEPT ![ptype] = @ + 1]
                     ELSE before @@ (ptype :> 1)
    IN  counts[Len(patterns)]

get_summary ==
    /\ summary' = <<[total_complete     |-> Len(complete_patterns),
                     total_incomplete   |-> Len(incomplete_patterns),
                     complete_by_type   |-> _count_by_type(complete_patterns),
                     incomplete_by_type |-> _count_by_type(incomplete_patterns)]>>
    /\ UNCHANGED <<classes, gensets, relations, complete_patterns, incomplete_patterns,
                   outcome, result, prev_result, found>>

(***************************************************************************)
(* A direct call of the matcher, kept with its arguments.                  *)
(***************************************************************************)
Modifiers == {"disjoint", "complete"}

QueryGenerals == {"K"}
QuerySpecifics == {<<>>, <<"A">>, <<"A", "B">>}
QueryRequired == {<<>>, <<"disjoint">>, <<"complete">>, <<"disjoint", "complete">>}
QueryForbidden == {<<>>, <<"disjoint">>}

find_genset_call ==
    \E general_class \in QueryGenerals, specific_classes \in QuerySpecifics,
       required_modifiers \in QueryRequired, forbidden_modifiers \in QueryForbidden :
        /\ found' = <<[general_class |-> general_class,
                       specific_classes |-> specific_classes,
                       required_modifiers |-> required_modifiers,
                       forbidden_modifiers |-> forbidden_modifiers,
                       returned |-> _find_genset_for_classes(general_class, specific_classes,
                                                             required_modifiers,
                                                             forbidden_modifiers)]>>
        /\ UNCHANGED <<classes, gensets, relations, complete_patterns, incomplete_patterns,
                       outcome, result, prev_result, summary>>

(***************************************************************************)
(* The models a validator is constructed with (__init__): the analysis     *)
(* data are kept as given, both accumulators start empty.                  *)
(***************************************************************************)
Constructed ==
    /\ complete_patterns = <<>>
    /\ incomplete_patterns = <<>>
    /\ outcome = "none"
    /\ result = <<>>
    /\ prev_result = <<>>
    /\ summary = <<>>
    /\ found = <<>>

\* all sequences of at most n elements of S
SeqsUpTo(S, n) == UNION {[1..k -> S] : k \in 0..n}

\* the general class "K" (line 1), then specializers S1, S2, ... (lines 2, 3, ...)
GeneralClass(stereotype) ==
    [name |-> "K", stereotype |-> stereotype, parents |-> {}, line |-> 1]

SpecializerClass(i, option) ==
    [name |-> "S" \o ToString(i), stereotype |-> option[1], parents |-> option[2],
     line |-> i + 1]

\* a specializer is of the target stereotype under K, of the target stereotype
\* under some other class, or of another stereotype under K
SpecializerOptions(target, other) == {<<target, {"K"}>>, <<target, {"X"}>>, <<other, {"K"}>>}

ClassesUnderK(general_stereotype, options) ==
    {<<GeneralClass(general_stereotype)>> \o [i \in 1..Len(o) |-> SpecializerClass(i, o[i])] :
        o \in SeqsUpTo(options, MaxSpecializers)}

\* the gensets tried for a class list: over K with all the declared specializers,
\* all but the first, or all and a class more, under every set of modifiers; and
\* one disjoint complete genset of another general class
GensetOptions(cls) ==
    LET names == {cls[i].name : i \in 2..Len(cls)}
    IN  {[general |-> "K", specifics |-> sp, modifiers |-> m] :
            sp \in {names, names \ {"S1"}, names \cup {"Z"}}, m \in SUBSET Modifiers}
        \cup {[general |-> "X", specifics |-> names, modifiers |-> Modifiers]}

NamedGenset(i, g) ==
    [name |-> "G" \o ToString(i), general |-> g.general, specifics |-> g.specifics,
     modifiers |-> g.modifiers]

GensetLists(options) ==
    {[i \in 1..Len(o) |-> NamedGenset(i, o[i])] : o \in SeqsUpTo(options, MaxGensets)}

InitUnderK(general_stereotype, target, other) ==
    /\ classes \in ClassesUnderK(general_stereotype, SpecializerOptions(target, other))
    /\ gensets \in GensetLists(GensetOptions(classes))
    /\ relations = <<>>
    /\ Constructed

InitSubkind == InitUnderK("kind", "subkind", "role")
InitRole == InitUnderK("kind", "role", "phase")
InitPhase == InitUnderK("kind", "phase", "subkind")
InitRoleMixin == InitUnderK("roleMixin", "role", "subkind")

SpecSubkind == InitSubkind /\ [][validate_all]_vars
SpecRole == InitRole /\ [][validate_all]_vars
SpecPhase == InitPhase /\ [][validate_all]_vars
SpecRoleMixin == InitRoleMixin /\ [][validate_all]_vars

\* a kind with subkinds, roles and phases under it and a subkind under another
\* class; gensets over K that cover all the declared specializers, under every
\* set of modifiers
KindGensetOptions(cls) ==
    LET names == {cls[i].name : i \in 2..Len(cls)}
    IN  {[general |-> "K", specifics |-> sp, modifiers |-> m] :
            sp \in {names, names \cup {"Z"}}, m \in SUBSET Modifiers}

InitKinds ==
    /\ classes \in ClassesUnderK("kind", {<<"subkind", {"K"}>>, <<"role", {"K"}>>,
                                          <<"phase", {"K"}>>, <<"subkind", {"X"}>>})
    /\ gensets \in GensetLists(KindGensetOptions(classes))
    /\ relations = <<>>
    /\ Constructed

SpecKinds == InitKinds /\ [][validate_all]_vars

\* gensets for direct calls of the matcher
FindGensetOptions ==
    {[general |-> g, specifics |-> sp, modifiers |-> m] :
        g \in {"K", "X"}, sp \in {{"A"}, {"A", "B", "C"}}, m \in SUBSET Modifiers}

InitFind ==
    /\ classes = <<>>
    /\ gensets \in GensetLists(FindGensetOptions)
    /\ relations = <<>>
    /\ Constructed

SpecFind == InitFind /\ [][find_genset_call]_vars

\* a relator R and a mode M, each with or without a body, and top-level relations
MemberStereotypes == {"mediation", "characterization", "externalDependence"}

Bodies == {[i \in 1..Len(b) |-> [stereotype |-> b[i]]] : b \in SeqsUpTo(MemberStereotypes, MaxBody)}

ContainerClasses(name, stereotype, line) ==
    {[name |-> name, stereotype |-> stereotype, parents |-> {}, line |-> line]}
    \cup {[name |-> name, stereotype |-> stereotype, parents |-> {}, body |-> b, line |-> line] :
            b \in Bodies}

RelationOptions ==
    {[stereotype |-> s, internal |-> i] : s \in {"mediation", "characterization"}, i \in BOOLEAN}

InitContainers ==
    /\ classes \in {<<r, m>> : r \in ContainerClasses("R", "relator", 1),
                               m \in ContainerClasses("M", "mode", 2)}
    /\ gensets = <<>>
    /\ relations \in SeqsUpTo(RelationOptions, MaxRelations)
    /\ Constructed

SpecContainers == InitContainers /\ [][validate_all]_vars

\* a kind with specializers, then at most two relators, modes or roleMixins, the
\* last of which may lack its 'line'
WithoutLine(c) == [k \in DOMAIN c \ {"line"} |-> c[k]]

LastClasses ==
    LET well == {[name |-> "R", stereotype |-> "relator", parents |-> {},
                  body |-> <<[stereotype |-> "mediation"], [stereotype |-> "mediation"]>>,
                  line |-> 9],
                 [name |-> "M", stereotype |-> "mode", parents |-> {},
                  body |-> <<[stereotype |-> "characterization"]>>, line |-> 9],
                 [name |-> "RM", stereotype |-> "roleMixin", parents |-> {}, line |-> 9]}
        second(c) == [c EXCEPT !.name = @ \o "2"]
    IN  {<<>>} \cup {<<c>> : c \in well} \cup {<<WithoutLine(c)>> : c \in well}
        \cup {<<c, second(c)>> : c \in well}
        \cup {<<c, WithoutLine(second(c))>> : c \in well}

InitMixed ==
    /\ classes \in {k \o l :
                      k \in ClassesUnderK("kind", {<<"subkind", {"K"}>>, <<"role", {"K"}>>,
                                                   <<"phase", {"K"}>>}),
                      l \in LastClasses}
    /\ gensets \in {<<>>} \cup
                   {<<[name |-> "G1", general |-> "K",
                       specifics |-> {classes[i].name : i \in 2..Len(classes)},
                       modifiers |-> m]>> : m \in {Modifiers, {"complete"}}}
    /\ relations \in SeqsUpTo({[stereotype |-> "mediation", internal |-> TRUE]}, MaxRelations)
    /\ Constructed

Init == InitMixed

Next == validate_all \/ get_summary

Spec == Init /\ [][Next]_vars

(***************************************************************************)
(* Vocabulary of the properties.                                           *)
(***************************************************************************)
\* how many elements of seq satisfy P
CountWhere(seq, P(_)) == Cardinality({i \in 1..Len(seq) : P(seq[i])})

\* the names of the classes of a stereotype that have general among their parents
SpecializerNames(stereotype, general) ==
    {classes[i].name : i \in {j \in 1..Len(classes) :
        /\ classes[j].stereotype = stereotype
        /\ "parents" \in DOMAIN classes[j]
        /\ general \in classes[j].parents}}

\* the same names, in class-list order
RECURSIVE SpecializerList(_, _, _)
SpecializerList(stereotype, general, i) ==
    IF i > Len(classes) THEN <<>>
    ELSE (IF classes[i].name \in SpecializerNames(stereotype, general)
          THEN <<classes[i].name>> ELSE <<>>)
         \o SpecializerList(stereotype, general, i + 1)

\* the positions of the gensets over general that cover names
Covering(general, names) ==
    {i \in 1..Len(gensets) : gensets[i].general = general /\ names \subseteq gensets[i].specifics}

Kinds == {classes[i] : i \in {j \in 1..Len(classes) : classes[j].stereotype = "kind"}}

\* verdicts of a pattern type for a kind, in an accumulator
VerdictsFor(acc, type, kind_name) ==
    CountWhere(acc, LAMBDA v : v.type = type /\ v.kind = kind_name)

\* C1: for every relator, the verdict is decided by the number n of mediation
\* members of its body alone, whatever the top-level relations hold: Complete
\* with mediation count n when n >= 2, Incomplete reporting exactly n otherwise.
C1_RelatorVerdictFromBodyOnly ==
    outcome = "returned" =>
        \A k \in 1..Len(classes) :
            classes[k].stereotype = "relator" =>
                LET c == classes[k]
                    body == IF "body" \in DOMAIN c THEN c.body ELSE <<>>
                    n == Cardinality({i \in 1..Len(body) : body[i].stereotype = "mediation"})
                    isR(v) == v.type = "Relator Pattern" /\ v.relator = c.name
                IN  IF n >= 2
                    THEN /\ CountWhere(complete_patterns, LAMBDA v : isR(v) /\ v.mediations = n) = 1
                         /\ CountWhere(incomplete_patterns, isR) = 0
                    ELSE /\ CountWhere(complete_patterns, isR) = 0
                         /\ CountWhere(incomplete_patterns,
                                LAMBDA v : /\ isR(v)
                                           /\ v.error = "Relator deve ter pelo menos 2 mediações (tem "
                                                          \o ToString(n) \o ")") = 1

\* C2: a direct call of _find_genset_for_classes returns the first genset, in list
\* order, that has the general class, contains every specific class, contains every
\* required modifier and contains no forbidden modifier; None exactly when no
\* genset has all four.
C2_FindGensetFirstQualifying ==
    found # <<>> =>
        LET q == found[1]
            Q == {i \in 1..Len(gensets) :
                    /\ gensets[i].general = q.general_class
                    /\ Range(q.specific_classes) \subseteq gensets[i].specifics
                    /\ Range(q.required_modifiers) \subseteq gensets[i].modifiers
                    /\ Range(q.forbidden_modifiers) \cap gensets[i].modifiers = {}}
        IN  IF Q = {}
            THEN q.returned = <<>>
            ELSE q.returned = <<gensets[CHOOSE i \in Q : \A j \in Q : i <= j]>>

\* C2 witness: the call returned the second genset, which has a specific class more
\* than was asked for, and the first genset was passed over for a forbidden modifier.
C2_Witness ==
    /\ found # <<>>
    /\ Len(gensets) >= 2
    /\ found[1].returned = <<gensets[2]>>
    /\ Cardinality(gensets[2].specifics) > Len(found[1].specific_classes)
    /\ gensets[1].general = found[1].general_class
    /\ Range(found[1].forbidden_modifiers) \cap gensets[1].modifiers # {}
    /\ Range(found[1].required_modifiers) \subseteq gensets[1].modifiers
    /\ Range(found[1].specific_classes) \subseteq gensets[1].specifics

\* C3: for a kind K with two or more subkinds: with no disjoint complete genset over
\* K covering them, the result has exactly one Incomplete Subkind Pattern verdict for
\* K and no Complete one; when the model is that model with such a genset G added,
\* the result has exactly one Complete Subkind Pattern verdict for K, naming G, and
\* no Incomplete one.
C3_SubkindVerdictFlipsWithGenset ==
    outcome = "returned" =>
        \A K \in Kinds :
            LET subs == SpecializerNames("subkind", K.name)
                dc == {i \in Covering(K.name, subs) : Modifiers \subseteq gensets[i].modifiers}
                r == result[1]
                ofK(f) == f.pattern = "Subkind Pattern" /\ f.line = K.line
            IN  Cardinality(subs) >= 2 =>
                  /\ dc = {} =>
                        /\ VerdictsFor(incomplete_patterns, "Subkind Pattern", K.name) = 1
                        /\ VerdictsFor(complete_patterns, "Subkind Pattern", K.name) = 0
                        /\ CountWhere(r.incomplete, ofK) = 1
                        /\ CountWhere(r.complete, ofK) = 0
                  /\ dc = {Len(gensets)} =>
                        /\ VerdictsFor(complete_patterns, "Subkind Pattern", K.name) = 1
                        /\ VerdictsFor(incomplete_patterns, "Subkind Pattern", K.name) = 0
                        /\ \A i \in 1..Len(complete_patterns) :
                              complete_patterns[i].type = "Subkind Pattern"
                                  => complete_patterns[i].genset = gensets[Len(gensets)].name
                        /\ CountWhere(r.complete,
                              LAMBDA f : /\ ofK(f)
                                         /\ f.details = "Kind '" \o K.name \o "' com subkinds "
                                              \o ListRepr(SpecializerList("subkind", K.name, 1))
                                              \o " e genset '" \o gensets[Len(gensets)].name
                                              \o "'") = 1
                        /\ CountWhere(r.incomplete, ofK) = 0

\* C3 witness: a kind with two subkinds, a genset that is no match, then the
\* matching genset added after it, and the Complete verdict that names it.
C3_Witness ==
    /\ outcome = "returned"
    /\ Len(gensets) = 2
    /\ \E K \in Kinds :
          /\ Cardinality(SpecializerNames("subkind", K.name)) >= 2
          /\ {i \in Covering(K.name, SpecializerNames("subkind", K.name)) :
                  Modifiers \subseteq gensets[i].modifiers} = {2}
          /\ gensets[1].general = K.name
          /\ Len(complete_patterns) = 1
          /\ complete_patterns[1].genset = "G2"

\* C4: for a kind K with two or more roles: if every genset over K covering the
\* roles carries 'disjoint' (also with 'complete'), the Role Pattern verdict for K is
\* Incomplete and none is Complete; a Complete verdict for K requires a covering
\* genset with 'complete' and without 'disjoint'.
C4_RoleDisjointForbidden ==
    outcome = "returned" =>
        \A K \in Kinds :
            LET roles == SpecializerNames("role", K.name)
                cov == Covering(K.name, roles)
            IN  Cardinality(roles) >= 2 =>
                  /\ (\A i \in cov : "disjoint" \in gensets[i].modifiers) =>
                        /\ VerdictsFor(incomplete_patterns, "Role Pattern", K.name) = 1
                        /\ VerdictsFor(complete_patterns, "Role Pattern", K.name) = 0
                  /\ VerdictsFor(complete_patterns, "Role Pattern", K.name) > 0 =>
                        \E i \in cov : /\ "complete" \in gensets[i].modifiers
                                       /\ "disjoint" \notin gensets[i].modifiers

\* C4 witness: two roles under K, a covering genset that is disjoint and complete,
\* and the Incomplete verdict.
C4_Witness ==
    /\ outcome = "returned"
    /\ \E K \in Kinds :
          /\ Cardinality(SpecializerNames("role", K.name)) >= 2
          /\ \E i \in Covering(K.name, SpecializerNames("role", K.name)) :
                gensets[i].modifiers = Modifiers
          /\ VerdictsFor(incomplete_patterns, "Role Pattern", K.name) = 1

\* C5: for a kind K with two or more phases, the Phase Pattern verdict for K is
\* Complete iff some genset over K covering the phases has 'disjoint'; 'complete'
\* changes nothing.
C5_PhaseNeedsOnlyDisjoint ==
    outcome = "returned" =>
        \A K \in Kinds :
            LET phases == SpecializerNames("phase", K.name)
                cov == Covering(K.name, phases)
                some == \E i \in cov : "disjoint" \in gensets[i].modifiers
            IN  Cardinality(phases) >= 2 =>
                  /\ VerdictsFor(complete_patterns, "Phase Pattern", K.name)
                        = (IF some THEN 1 ELSE 0)
                  /\ VerdictsFor(incomplete_patterns, "Phase Pattern", K.name)
                        = (IF some THEN 0 ELSE 1)

\* C5 witness: two phases under K, the only covering gensets have {disjoint} alone,
\* and the verdict is Complete.
C5_Witness ==
    /\ outcome = "returned"
    /\ \E K \in Kinds :
          /\ Cardinality(SpecializerNames("phase", K.name)) >= 2
          /\ Covering(K.name, SpecializerNames("phase", K.name)) # {}
          /\ \A i \in Covering(K.name, SpecializerNames("phase", K.name)) :
                gensets[i].modifiers = {"disjoint"}
          /\ VerdictsFor(complete_patterns, "Phase Pattern", K.name) = 1

\* C6: for every mode, the verdict is Complete iff its body has a characterization
\* member and an externalDependence member; otherwise it is Incomplete, and its
\* error and suggestion name exactly the missing kinds.
C6_ModeNamesExactlyTheMissing ==
    outcome = "returned" =>
        \A k \in 1..Len(classes) :
            classes[k].stereotype = "mode" =>
                LET c == classes[k]
                    body == IF "body" \in DOMAIN c THEN c.body ELSE <<>>
                    hasC == \E i \in 1..Len(body) : body[i].stereotype = "characterization"
                    hasE == \E i \in 1..Len(body) : body[i].stereotype = "externalDependence"
                    isM(v) == v.type = "Mode Pattern" /\ v.mode = c.name
                    error == IF hasC THEN "Faltam relações: @externalDependence"
                             ELSE IF hasE THEN "Faltam relações: @characterization"
                             ELSE "Faltam relações: @characterization, @externalDependence"
                    suggestion ==
                        IF hasC THEN "Adicione @externalDependence dentro do mode " \o c.name
                        ELSE IF hasE THEN "Adicione @characterization dentro do mode " \o c.name
                        ELSE "Adicione @characterization e @externalDependence dentro do mode "
                                \o c.name
                IN  IF hasC /\ hasE
                    THEN /\ CountWhere(complete_patterns, isM) = 1
                         /\ CountWhere(incomplete_patterns, isM) = 0
                    ELSE /\ CountWhere(complete_patterns, isM) = 0
                         /\ CountWhere(incomplete_patterns, isM) = 1
                         /\ CountWhere(incomplete_patterns,
                                LAMBDA v : /\ isM(v)
                                           /\ v.error = error
                                           /\ v.suggestion = suggestion) = 1
                         /\ CountWhere(result[1].incomplete,
                                LAMBDA f : /\ f.pattern = "Mode Pattern"
                                           /\ f.line = c.line
                                           /\ f.error = error
                                           /\ f.suggestion = suggestion) = 1

\* C6 witness: a mode whose body has characterization members only, and the
\* Incomplete verdict that names @externalDependence alone.
C6_Witness ==
    /\ outcome = "returned"
    /\ \E k \in 1..Len(classes) :
          /\ classes[k].stereotype = "mode"
          /\ "body" \in DOMAIN classes[k]
          /\ Len(classes[k].body) >= 1
          /\ \A i \in 1..Len(classes[k].body) :
                classes[k].body[i].stereotype = "characterization"
          /\ \E j \in 1..Len(incomplete_patterns) :
                /\ incomplete_patterns[j].type = "Mode Pattern"
                /\ incomplete_patterns[j].error = "Faltam relações: @externalDependence"

\* C7: a roleMixin M with fewer than two roles under it gets exactly one Incomplete
\* RoleMixin Pattern verdict, with the minimum-2-roles error and the add-roles
\* suggestion, and no Complete verdict, whatever the gensets are; the suggestion is
\* never the disjoint complete genset declaration.
C7_RoleMixinTooFewRoles ==
    outcome = "returned" =>
        \A k \in 1..Len(classes) :
            classes[k].stereotype = "roleMixin" =>
                LET M == classes[k]
                    roles == SpecializerNames("role", M.name)
                    isM(v) == v.type = "RoleMixin Pattern" /\ v.rolemixin = M.name
                    error == "Precisa de pelo menos 2 roles especializando " \o M.name
                    suggestion == "Adicione roles que especializam " \o M.name
                    declaration ==
                        "Adicione: disjoint complete genset " \o M.name \o "_Genset { general "
                            \o M.name \o " specifics "
                            \o Join(", ", SpecializerList("role", M.name, 1)) \o " }"
                IN  Cardinality(roles) < 2 =>
                      /\ CountWhere(complete_patterns, isM) = 0
                      /\ CountWhere(incomplete_patterns, isM) = 1
                      /\ \A i \in 1..Len(incomplete_patterns) :
                            isM(incomplete_patterns[i]) =>
                                /\ incomplete_patterns[i] =
                                      [type |-> "RoleMixin Pattern", rolemixin |-> M.name,
                                       error |-> error, suggestion |-> suggestion,
                                       line |-> M.line]
                                /\ incomplete_patterns[i].suggestion # declaration
                      /\ CountWhere(result[1].complete,
                              LAMBDA f : f.pattern = "RoleMixin Pattern" /\ f.line = M.line) = 0
                      /\ CountWhere(result[1].incomplete,
                              LAMBDA f : f.pattern = "RoleMixin Pattern" /\ f.line = M.line) = 1
                      /\ CountWhere(result[1].incomplete,
                              LAMBDA f : f = [pattern |-> "RoleMixin Pattern", error |-> error,
                                              suggestion |-> suggestion, line |-> M.line]) = 1

\* C7 witness: one role under the roleMixin, a disjoint complete genset over the
\* roleMixin that covers that role, and the Incomplete verdict.
C7_Witness ==
    /\ outcome = "returned"
    /\ \E k \in 1..Len(classes) :
          /\ classes[k].stereotype = "roleMixin"
          /\ Cardinality(SpecializerNames("role", classes[k].name)) = 1
          /\ \E i \in Covering(classes[k].name, SpecializerNames("role", classes[k].name)) :
                gensets[i].modifiers = Modifiers
          /\ Len(incomplete_patterns) = 1
          /\ incomplete_patterns[1].type = "RoleMixin Pattern"

\* C8: consecutive validate_all calls on an unchanged model return the same complete
\* and incomplete sequences, and the accumulators hold one run's verdicts only.
C8_ValidateAllIdempotent ==
    (result # <<>> /\ prev_result # <<>>) =>
        /\ result = prev_result
        /\ Len(complete_patterns) = Len(result[1].complete)
        /\ Len(incomplete_patterns) = Len(result[1].incomplete)

\* C8 witness: a second run has returned, and the runs have verdicts of both kinds.
C8_Witness ==
    /\ result # <<>>
    /\ prev_result # <<>>
    /\ Len(result[1].complete) > 0
    /\ Len(result[1].incomplete) > 0

\* C9: what get_summary returns partitions the two accumulators by pattern type:
\* the totals are their lengths, each per-type count is the number of verdicts of
\* that type, the counts sum to the total and no type has count zero; and after a
\* run that returned (or before any run) these are the lengths and the per-type
\* tallies of the sequences the latest validate_all returned (0 before any run).
RECURSIVE SumOver(_, _)
SumOver(f, keys) ==
    IF keys = {} THEN 0
    ELSE LET k == CHOOSE x \in keys : TRUE IN f[k] + SumOver(f, keys \ {k})

\* types is the sequence of the pattern types of a sequence of verdicts
Partitions(by_type, total, types) ==
    /\ total = Len(types)
    /\ DOMAIN by_type = Range(types)
    /\ \A t \in DOMAIN by_type :
          /\ by_type[t] = CountWhere(types, LAMBDA x : x = t)
          /\ by_type[t] > 0
    /\ SumOver(by_type, DOMAIN by_type) = total

C9_SummaryPartitionsResult ==
    summary # <<>> =>
        LET s == summary[1]
            r == IF result = <<>> THEN [complete |-> <<>>, incomplete |-> <<>>] ELSE result[1]
        IN  /\ Partitions(s.complete_by_type, s.total_complete,
                          [i \in 1..Len(complete_patterns) |-> complete_patterns[i].type])
            /\ Partitions(s.incomplete_by_type, s.total_incomplete,
                          [i \in 1..Len(incomplete_patterns) |-> incomplete_patterns[i].type])
            /\ outcome # "raised" =>
                  /\ Partitions(s.complete_by_type, s.total_complete,
                                [i \in 1..Len(r.complete) |-> r.complete[i].pattern])
                  /\ Partitions(s.incomplete_by_type, s.total_incomplete,
                                [i \in 1..Len(r.incomplete) |-> r.incomplete[i].pattern])

\* C9 witness: a summary taken after a run that returned two Incomplete verdicts of
\* one type and a verdict of another type.
C9_Witness ==
    /\ summary # <<>>
    /\ outcome = "returned"
    /\ \E t \in DOMAIN summary[1].incomplete_by_type : summary[1].incomplete_by_type[t] >= 2
    /\ Cardinality(DOMAIN summary[1].incomplete_by_type) >= 2

\* C10: a run is transactional: after a validate_all that a KeyError aborted, no
\* verdict of that run is left in the accumulators, and get_summary reports none.
C10_AbortedRunExposesNothing ==
    outcome = "raised" =>
        /\ complete_patterns = <<>>
        /\ incomplete_patterns = <<>>
        /\ summary # <<>> =>
              /\ summary[1].total_complete = 0
              /\ summary[1].total_incomplete = 0

\* the specializer stereotype of the Subkind, Role and Phase pattern types
StereotypeOf(type) ==
    IF type = "Subkind Pattern" THEN "subkind"
    ELSE IF type = "Role Pattern" THEN "role"
    ELSE "phase"

KindPatternTypes == {"Subkind Pattern", "Role Pattern", "Phase Pattern"}

\* the declaration a suggestion proposes
Declaration(modifiers, genset_name, general, specifics) ==
    "Adicione: " \o modifiers \o " genset " \o genset_name \o " { general " \o general
        \o " specifics " \o Join(", ", specifics) \o " }"

\* C11 as stated: every Incomplete Subkind, Role or Phase verdict for a kind K
\* suggests the declaration whose modifiers are the pattern's required genset
\* modifiers (disjoint complete; complete; disjoint), whose genset is <K>_Genset,
\* whose general is K and whose specifics are the specializers in class-list order.
C11_SuggestionIsRequiredModifiersTemplate ==
    \A i \in 1..Len(incomplete_patterns) :
        LET v == incomplete_patterns[i]
        IN  v.type \in KindPatternTypes =>
                v.suggestion =
                    Declaration(IF v.type = "Subkind Pattern" THEN "disjoint complete"
                                ELSE IF v.type = "Role Pattern" THEN "complete"
                                ELSE "disjoint",
                                v.kind \o "_Genset", v.kind,
                                SpecializerList(StereotypeOf(v.type), v.kind, 1))

\* C11 amended: every Incomplete Subkind, Role or Phase verdict for a kind K
\* suggests a declaration with general K and the specializers in class-list order
\* as specifics; its modifiers are 'disjoint complete' for Subkind and for Phase and
\* 'complete' for Role, and its genset is <K>_Genset for Subkind, <K>_Role_Genset
\* for Role and <K>_Phase_Genset for Phase.
C11_SuggestionTemplatePerPattern ==
    \A i \in 1..Len(incomplete_patterns) :
        LET v == incomplete_patterns[i]
        IN  v.type \in KindPatternTypes =>
                v.suggestion =
                    Declaration(IF v.type = "Role Pattern" THEN "complete"
                                ELSE "disjoint complete",
                                IF v.type = "Subkind Pattern" THEN v.kind \o "_Genset"
                                ELSE IF v.type = "Role Pattern" THEN v.kind \o "_Role_Genset"
                                ELSE v.kind \o "_Phase_Genset",
                                v.kind,
                                SpecializerList(StereotypeOf(v.type), v.kind, 1))

\* C11 witness: two phases under K, no genset with 'disjoint', and the Incomplete
\* Phase Pattern verdict with its suggestion.
C11_Witness ==
    /\ outcome = "returned"
    /\ Len(incomplete_patterns) = 1
    /\ incomplete_patterns[1].type = "Phase Pattern"
    /\ incomplete_patterns[1].suggestion =
          "Adicione: disjoint complete genset K_Phase_Genset { general K specifics S1, S2 }"

\* C12: for every kind K and each of the Subkind, Role and Phase patterns, if fewer
\* than two classes of the pattern's specializer stereotype have K among their
\* parents, neither sequence holds a verdict of that pattern type for K, whatever
\* the gensets are.
C12_TooFewSpecializersNoVerdict ==
    outcome = "returned" =>
        \A K \in Kinds : \A type \in KindPatternTypes :
            Cardinality(SpecializerNames(StereotypeOf(type), K.name)) < 2 =>
                /\ VerdictsFor(complete_patterns, type, K.name) = 0
                /\ VerdictsFor(incomplete_patterns, type, K.name) = 0
                /\ CountWhere(result[1].complete,
                              LAMBDA f : f.pattern = type /\ f.line = K.line) = 0
                /\ CountWhere(result[1].incomplete,
                              LAMBDA f : f.pattern = type /\ f.line = K.line) = 0

\* C12 witness: two subkind classes of which one is under K, a disjoint complete
\* genset over K that covers both, and a run that returned no verdict.
C12_Witness ==
    /\ outcome = "returned"
    /\ \E K \in Kinds :
          /\ Cardinality(SpecializerNames("subkind", K.name)) = 1
          /\ Len(ClassesOf("subkind")) = 2
          /\ \E i \in Covering(K.name, {"S1", "S2"}) : gensets[i].modifiers = Modifiers
    /\ result[1].complete = <<>>
    /\ result[1].incomplete = <<>>

====
